---------------------------- MODULE Spec2Model ----------------------------
(***************************************************************************)
(* Model of the yfm_table block rule of src/transform/plugins/table:       *)
(* the extended-table scanner (getTableRowPositions over a StateIterator), *)
(* the tree builder of yfmTable, applySpans and clearTokens.               *)
(*                                                                         *)
(* The source buffer is a sequence of one-character strings; positions and *)
(* line numbers are 0-based as in the code, so src[p + 1] is the character *)
(* at position p.                                                          *)
(***************************************************************************)
EXTENDS Integers, Sequences, FiniteSets, TLC

VARIABLES
    src,        \* state.src
    bMarks,     \* state.bMarks: line -> start offset          (index line + 1)
    tShift,     \* state.tShift: line -> indentation width     (index line + 1)
    eMarks,     \* state.eMarks: line -> end offset            (index line + 1)
    lineMax,    \* state.lineMax
    line,       \* state.line, the host's line cursor
    level,      \* state.level, the nesting depth of the next pushed token
    tokens,     \* state.tokens
    opts,       \* the plugin options
    startLine,  \* the rule's arguments
    endLine,
    silent,     \* the rule's argument silent (FALSE until a silent probe is made)
    pc,         \* where the rule is: idle, scan, scanned, rows, cells, spans, clear, done, threw
    result,     \* what the rule returned: "none" while running, "true", "false", "TypeError"
    scan,       \* the locals of getTableRowPositions (iter included)
    build,      \* the locals of the full match after the scan
    snap        \* the host state at the call, kept to state frame conditions

vars == << src, bMarks, tShift, eMarks, lineMax, line, level, tokens, opts,
           startLine, endLine, silent, pc, result, scan, build, snap >>

(***************************************************************************)
(* Characters                                                              *)
(***************************************************************************)
pipeChar       == "|"
apostropheChar == "bt"   \* 0x60, the backtick (a name: the lexer refuses the character itself)
hashChar       == "#"
backSlashChar  == "\\"
curlyBraceOpen == "{"
curlyBraceClose == "}"
dollarChar     == "$"
newLine        == "\n"
spaceChar      == " "
tabChar        == "\t"

\* The value of an arithmetic expression over an undefined operand, and of
\* an array read past its end.
NaN == -1

IsNum(x) == x # NaN

\* src.charCodeAt(p) / src[p]: "" stands for "no character here".
At(p) == IF p >= 0 /\ p < Len(src) THEN src[p + 1] ELSE ""

IsDigit(c) == c \in {"0", "1", "2", "3", "4", "5", "6", "7", "8", "9"}
IsSpace(c) == c \in {spaceChar, tabChar}

Min(a, b) == IF a < b THEN a ELSE b
Max(a, b) == IF a > b THEN a ELSE b

(***************************************************************************)
(* The host's line index (markdown-it StateBlock): one entry per line,     *)
(* closed by a sentinel entry at the buffer's end.                         *)
(***************************************************************************)
RECURSIVE IndentFrom(_, _)
IndentFrom(s, p) ==
    IF p <= Len(s) /\ IsSpace(s[p]) THEN 1 + IndentFrom(s, p + 1) ELSE 0

RECURSIVE LineEndFrom(_, _)
\* 0-based offset of the first "\n" at or after 0-based offset p, or Len(s)
LineEndFrom(s, p) ==
    IF p >= Len(s) THEN Len(s)
    ELSE IF s[p + 1] = newLine THEN p
    ELSE LineEndFrom(s, p + 1)

RECURSIVE LinesFrom(_, _)
\* the <<bMark, tShift, eMark>> triples of the lines starting at offset p
LinesFrom(s, p) ==
    IF p >= Len(s) THEN << >>
    ELSE LET e == LineEndFrom(s, p)
         IN  << << p, IndentFrom(s, p + 1), e >> >> \o LinesFrom(s, e + 1)

LineIndex(s) == LinesFrom(s, 0) \o << << Len(s), 0, Len(s) >> >>

\* state.bMarks[l], state.tShift[l], state.eMarks[l]; NaN past the arrays
BMark(l) == IF l >= 0 /\ l < Len(bMarks) THEN bMarks[l + 1] ELSE NaN
TShift(l) == IF l >= 0 /\ l < Len(tShift) THEN tShift[l + 1] ELSE NaN
EMark(l) == IF l >= 0 /\ l < Len(eMarks) THEN eMarks[l + 1] ELSE NaN

(***************************************************************************)
(* Sentinel detectors                                                      *)
(***************************************************************************)
checkCharsOrder(order, pos) ==
    \A i \in 1..Len(order) : At(pos + i - 1) = order[i]

liquidVariableStartOrder == << curlyBraceOpen, curlyBraceOpen >>
isLiquidVariableStart(pos) == checkCharsOrder(liquidVariableStartOrder, pos)

liquidVariableEndOrder == << curlyBraceClose, curlyBraceClose >>
isLiquidVariableEnd(pos) == checkCharsOrder(liquidVariableEndOrder, pos)

codeBlockOrder == << apostropheChar, apostropheChar, apostropheChar >>
isCodeBlockOrder(pos) == checkCharsOrder(codeBlockOrder, pos)

mathBlockOrder == << dollarChar, dollarChar >>
isMathBlockOrder(pos) == checkCharsOrder(mathBlockOrder, pos)

openTableOrder == << hashChar, pipeChar >>
isOpenTableOrder(pos) == checkCharsOrder(openTableOrder, pos)

RECURSIVE BackslashStop(_)
\* where the backward walk of isEscaped stops: the first position below pos
\* that holds no backslash (-1 when the run reaches the buffer's start)
BackslashStop(pos) ==
    IF At(pos) = backSlashChar THEN BackslashStop(pos - 1) ELSE pos

\* isEscaped looking at the one character before pos only
isEscapedPrevOnly(pos) == At(pos - 1) = backSlashChar

isEscaped(pos) == (pos - BackslashStop(pos - 1)) % 2 = 0

notEscaped(pos) == ~isEscaped(pos)

rowStartOrder == << pipeChar, pipeChar >>
isRowOrder(pos) == checkCharsOrder(rowStartOrder, pos) /\ notEscaped(pos)

cellStartOrder == << pipeChar >>
isCellOrder(pos) ==
    checkCharsOrder(cellStartOrder, pos) /\ notEscaped(pos) /\ ~isRowOrder(pos)

closeTableOrder == << pipeChar, hashChar >>
isCloseTableOrder(pos) == checkCharsOrder(closeTableOrder, pos)

(***************************************************************************)
(* Span skippers.  A result is << >> (false) or << [end, steps] >>.         *)
(***************************************************************************)
RECURSIVE RunEnd(_, _, _)
\* while (p < max && src.charCodeAt(p) === c) p++
RunEnd(c, p, max) ==
    IF p < max /\ At(p) = c THEN RunEnd(c, p + 1, max) ELSE p

RECURSIVE IndexOf(_, _)
\* src.indexOf(c, from): NaN for -1
IndexOf(c, from) ==
    IF from >= Len(src) THEN NaN
    ELSE IF At(from) = c THEN from
    ELSE IndexOf(c, from + 1)

RECURSIVE CodeCloser(_, _, _, _)
CodeCloser(start, openerLength, matchEnd, max) ==
    LET matchStart == IndexOf(apostropheChar, matchEnd)
    IN  IF matchStart = NaN THEN << >>
        ELSE LET mEnd == RunEnd(apostropheChar, matchStart + 1, max)
             IN  IF mEnd - matchStart = openerLength
                   THEN << [end |-> mEnd, steps |-> mEnd - start] >>
                   ELSE CodeCloser(start, openerLength, mEnd, max)

skipInlineCode(pos, max) ==
    IF At(pos) # apostropheChar THEN << >>
    ELSE IF pos > 0 /\ isEscaped(pos) THEN << >>
    ELSE LET p == RunEnd(apostropheChar, pos, max)
         IN  CodeCloser(pos, p - pos, p, max)

RECURSIVE MathCloser(_, _, _)
MathCloser(start, from, max) ==
    LET match == IndexOf(dollarChar, from)
    IN  IF match = NaN \/ match > max THEN << >>
        ELSE IF isEscaped(match) THEN MathCloser(start, match + 1, max)
        ELSE LET prevChar == At(match - 1)
                 nextChar == IF match + 1 <= max THEN At(match + 1) ELSE ""
             IN  IF IsSpace(prevChar) \/ IsDigit(nextChar) THEN << >>
                 ELSE << [end |-> match + 1, steps |-> match + 1 - start] >>

skipInlineMath(pos, max) ==
    IF At(pos) # dollarChar THEN << >>
    ELSE IF pos > 0 /\ ~notEscaped(pos) THEN << >>
    ELSE LET nextChar == IF pos + 1 <= max THEN At(pos + 1) ELSE ""
         IN  IF IsSpace(nextChar) THEN << >>
             ELSE IF nextChar = dollarChar THEN << [end |-> pos + 2, steps |-> 2] >>
             ELSE MathCloser(pos + 1, pos + 1, max)

(***************************************************************************)
(* StateIterator: [pos, line, lineEnds]                                    *)
(***************************************************************************)
StateIterator(pos, l) == [pos |-> pos, line |-> l, lineEnds |-> EMark(l)]

stats(it) == [line |-> it.line, pos |-> it.pos]

symbol(it) == IF IsNum(it.pos) THEN At(it.pos) ELSE ""

\* one pass of the loop of next(): NaN++ is NaN, and NaN > x is false
nextOne(it) ==
    IF ~IsNum(it.pos) THEN it
    ELSE IF IsNum(it.lineEnds) /\ it.pos + 1 > it.lineEnds
      THEN [pos |-> IF IsNum(BMark(it.line + 1))
                      THEN BMark(it.line + 1) + TShift(it.line + 1)
                      ELSE NaN,
            line |-> it.line + 1,
            lineEnds |-> EMark(it.line + 1)]
      ELSE [it EXCEPT !.pos = it.pos + 1]

RECURSIVE next(_, _)
next(it, steps) ==
    IF steps <= 0 THEN it
    ELSE CHOOSE r \in { next(n, steps - 1) : n \in { nextOne(it) } } : TRUE

(***************************************************************************)
(* getTableRowPositions.  The locals are the fields of `scan`; an optional *)
(* value (null or a value) is << >> or << value >>.                        *)
(***************************************************************************)
Truthy(opt) == opt # << >> /\ opt[1] # 0

\* rowMap.get(tableLevel): undefined reads as false
rowMapGet(rowMap, lvl) == << lvl, TRUE >> \in rowMap

rowMapSet(rowMap, lvl, v) ==
    { e \in rowMap : e[1] # lvl } \cup { << lvl, v >> }

ScanStart(startPosition, l) ==
    [ iter |-> StateIterator(startPosition + Len(openTableOrder), l),
      endOfTable |-> << >>,
      tableLevel |-> 0,
      currentRow |-> << >>,
      colStart |-> << >>,
      rowStart |-> << >>,
      rows |-> << >>,
      isInsideCode |-> FALSE,
      isInsideMath |-> FALSE,
      isInsideLiquidVariable |-> FALSE,
      rowMap |-> { },
      broke |-> FALSE ]

addRow(s) ==
    LET cur == IF s.colStart # << >>
                 THEN Append(s.currentRow, << s.colStart[1], stats(s.iter) >>)
                 ELSE s.currentRow
        keep == Len(cur) # 0 /\ Truthy(s.rowStart)
    IN  [ s EXCEPT
            !.rows = IF keep THEN Append(@, << s.rowStart[1], s.iter.line, cur >>) ELSE @,
            !.currentRow = << >>,
            !.colStart = << >>,
            !.rowStart = << >> ]

\* a scanner whose cursor stays where it is
AdvanceNone(s, steps) == s

Advance(s, steps) == [ s EXCEPT !.iter = next(@, steps) ]

\* lines 274-279: the fenced-code toggle
CodeToggle(s) ==
    IF opts.table_ignoreSplittersInBlockCode /\ ~s.isInsideMath
       /\ isCodeBlockOrder(s.iter.pos)
      THEN Advance([ s EXCEPT !.isInsideCode = ~@ ], Len(codeBlockOrder))
      ELSE s

\* a fenced-math toggle that does not look at the code fence
MathToggleAnyway(s) ==
    IF opts.table_ignoreSplittersInBlockMath /\ isMathBlockOrder(s.iter.pos)
      THEN Advance([ s EXCEPT !.isInsideMath = ~@ ], Len(mathBlockOrder))
      ELSE s

\* lines 281-286: the fenced-math toggle
MathToggle(s) ==
    IF opts.table_ignoreSplittersInBlockMath /\ ~s.isInsideCode
       /\ isMathBlockOrder(s.iter.pos)
      THEN Advance([ s EXCEPT !.isInsideMath = ~@ ], Len(mathBlockOrder))
      ELSE s

\* lines 293-296: entering a template variable
LiquidOpen(s) ==
    IF ~s.isInsideLiquidVariable /\ isLiquidVariableStart(s.iter.pos)
      THEN Advance([ s EXCEPT !.isInsideLiquidVariable = TRUE ],
                   Len(liquidVariableStartOrder))
      ELSE s

\* lines 298-301: leaving a template variable
LiquidClose(s) ==
    IF s.isInsideLiquidVariable /\ isLiquidVariableEnd(s.iter.pos)
      THEN Advance([ s EXCEPT !.isInsideLiquidVariable = FALSE ],
                   Len(liquidVariableEndOrder))
      ELSE s

\* isInsideTable blind to the nesting level
isInsideTableNever(s) == FALSE

\* lines 343-349
isInsideTable(s) == s.tableLevel > 0

\* lines 330-341: the close fence
CloseTable(s) ==
    IF s.tableLevel = 0
      THEN LET a == Advance(addRow(s), Len(closeTableOrder))
           IN  [ a EXCEPT !.endOfTable = << a.iter.line + 2 >>, !.broke = TRUE ]
      ELSE Advance([ s EXCEPT !.tableLevel = @ - 1 ], Len(closeTableOrder))

\* a row marker whose closing branch moves the cursor before it calls addRow
RowMarkerLate(s) ==
    LET insideRow == rowMapGet(s.rowMap, s.tableLevel)
        t == IF insideRow
               THEN addRow(Advance(s, Len(rowStartOrder)))
               ELSE LET a == Advance(s, Len(rowStartOrder))
                    IN  [ a EXCEPT !.rowStart = << a.iter.line >>,
                                   !.colStart = << stats(a.iter) >> ]
    IN  [ t EXCEPT !.rowMap = rowMapSet(@, s.tableLevel, ~insideRow) ]

\* lines 351-365: a row marker
RowMarker(s) ==
    LET insideRow == rowMapGet(s.rowMap, s.tableLevel)
        t == IF insideRow
               THEN Advance(addRow(s), Len(rowStartOrder))
               ELSE LET a == Advance(s, Len(rowStartOrder))
                    IN  [ a EXCEPT !.rowStart = << a.iter.line >>,
                                   !.colStart = << stats(a.iter) >> ]
    IN  [ t EXCEPT !.rowMap = rowMapSet(@, s.tableLevel, ~insideRow) ]

\* a cell marker that records the closed cell end first
CellMarkerSwapped(s) ==
    LET c == IF s.colStart # << >>
               THEN [ s EXCEPT !.currentRow =
                        Append(@, << stats(s.iter), s.colStart[1] >>) ]
               ELSE s
        a == Advance(c, Len(cellStartOrder))
    IN  [ a EXCEPT !.colStart = << stats(a.iter) >> ]

\* lines 367-374: a cell marker
CellMarker(s) ==
    LET c == IF s.colStart # << >>
               THEN [ s EXCEPT !.currentRow =
                        Append(@, << s.colStart[1], stats(s.iter) >>) ]
               ELSE s
        a == Advance(c, Len(cellStartOrder))
    IN  [ a EXCEPT !.colStart = << stats(a.iter) >> ]

\* lines 324-376: what one pass does once no fence or template variable
\* holds the cursor
Dispatch(s) ==
    LET p == s.iter.pos
        code == IF opts.table_ignoreSplittersInInlineCode
                  THEN skipInlineCode(p, s.iter.lineEnds) ELSE << >>
        math == IF opts.table_ignoreSplittersInInlineMath
                  THEN skipInlineMath(p, s.iter.lineEnds) ELSE << >>
    IN  IF code # << >> THEN Advance(s, code[1].steps)
        ELSE IF math # << >> THEN Advance(s, math[1].steps)
        ELSE IF isOpenTableOrder(p)
          THEN Advance([ s EXCEPT !.tableLevel = @ + 1 ], Len(openTableOrder))
        ELSE IF isCloseTableOrder(p) THEN CloseTable(s)
        ELSE IF isInsideTable(s) THEN Advance(s, 1)
        ELSE IF isRowOrder(p) THEN RowMarker(s)
        ELSE IF isCellOrder(p) THEN CellMarker(s)
        ELSE Advance(s, 1)

\* the state a pass has reached when it decides on fences: lines 274-286
AfterFences(s) == MathToggle(CodeToggle(s))

\* the state a pass has reached when it decides on markers: lines 293-301
AfterLiquid(s) == LiquidClose(LiquidOpen(s))

\* a pass that does not look at the code fence flag
ScanPassBlind(s) ==
    LET f == AfterFences(s)
    IN  IF f.isInsideMath THEN Advance(f, 1)
        ELSE LET q == AfterLiquid(f)
             IN  IF q.isInsideLiquidVariable THEN Advance(q, 1)
                 ELSE Dispatch(q)

\* one pass of the while loop, lines 273-376
ScanPass(s) ==
    LET f == AfterFences(s)
    IN  IF f.isInsideCode \/ f.isInsideMath THEN Advance(f, 1)
        ELSE LET q == AfterLiquid(f)
             IN  IF q.isInsideLiquidVariable THEN Advance(q, 1)
                 ELSE Dispatch(q)

\* line 269-272: the loop goes on
ScanGoesOn(s, endPosition) ==
    /\ ~s.broke
    /\ IsNum(s.iter.pos) /\ IsNum(endPosition) /\ s.iter.pos <= endPosition
    /\ symbol(s.iter) # ""

(***************************************************************************)
(* Tokens.  state.push(type, tag, nesting) gives the token the current     *)
(* level (lowered first by a closing token) and raises the level after an  *)
(* opening one.  attrs is the insertion-ordered list of <<name, value>>.   *)
(***************************************************************************)
Token(type, lvl) ==
    [ type |-> type, level |-> lvl, content |-> << >>, markup |-> << >>,
      attrs |-> << >>, markForDeletion |-> FALSE, hidden |-> FALSE,
      map |-> << >> ]

\* the level a token pushed with this nesting gets, and the level left behind
PushLevel(lvl, nesting) == IF nesting < 0 THEN lvl - 1 ELSE lvl
LevelAfter(lvl, nesting) ==
    IF nesting < 0 THEN lvl - 1 ELSE IF nesting > 0 THEN lvl + 1 ELSE lvl

\* token.attrSet(name, value)
attrSet(tok, name, value) ==
    IF \E k \in 1..Len(tok.attrs) : tok.attrs[k][1] = name
      THEN [ tok EXCEPT !.attrs =
               [ k \in 1..Len(@) |->
                   IF @[k][1] = name THEN << name, value >> ELSE @[k] ] ]
      ELSE [ tok EXCEPT !.attrs = Append(@, << name, value >>) ]

HasAttr(tok, name) == \E k \in 1..Len(tok.attrs) : tok.attrs[k][1] = name

AttrOf(tok, name) ==
    LET k == CHOOSE k \in 1..Len(tok.attrs) : tok.attrs[k][1] = name
    IN  tok.attrs[k][2]

(***************************************************************************)
(* The host's block tokenizer, state.md.block.tokenize(state, from, to),   *)
(* as far as the rule reads its result: the lines of the range, cut by the *)
(* line index as it stands, fall into blocks separated by empty lines; a   *)
(* block opening with ">" is a blockquote, one opening with the open fence *)
(* is a nested table (this same rule, re-entered), any other a paragraph.  *)
(***************************************************************************)
IsWhite(c) == c \in { spaceChar, tabChar, newLine }

RECURSIVE TrimLeft(_)
TrimLeft(t) == IF Len(t) > 0 /\ IsWhite(t[1]) THEN TrimLeft(Tail(t)) ELSE t

RECURSIVE TrimRight(_)
TrimRight(t) ==
    IF Len(t) > 0 /\ IsWhite(t[Len(t)]) THEN TrimRight(SubSeq(t, 1, Len(t) - 1)) ELSE t

\* String.prototype.trim
Trim(t) == TrimRight(TrimLeft(t))

LineInIndex(l) == l >= 0 /\ l < Len(bMarks)

LineText(l) == SubSeq(src, BMark(l) + TShift(l) + 1, EMark(l))

\* state.isEmpty(l)
IsEmptyLine(l) == BMark(l) + TShift(l) >= EMark(l)

RECURSIVE BlockEnd(_, _)
\* the first line at or after l, below `to`, that is empty or past the index
BlockEnd(l, to) ==
    IF l >= to \/ ~LineInIndex(l) \/ IsEmptyLine(l) THEN l ELSE BlockEnd(l + 1, to)

RECURSIVE JoinLines(_, _)
JoinLines(l, to) ==
    IF l >= to THEN << >>
    ELSE IF l + 1 >= to THEN LineText(l)
    ELSE LineText(l) \o << newLine >> \o JoinLines(l + 1, to)

Paragraph(text, lvl, a, b) ==
    << [ Token("paragraph_open", lvl) EXCEPT !.map = << a, b >> ],
       [ Token("inline", lvl + 1) EXCEPT !.content = Trim(text), !.map = << a, b >> ],
       Token("paragraph_close", lvl) >>

Blockquote(text, lvl, a, b) ==
    LET inner == Trim(Tail(text))
    IN  << [ Token("blockquote_open", lvl) EXCEPT !.markup = << ">" >>, !.map = << a, b >> ] >>
        \o (IF inner = << >> THEN << >> ELSE Paragraph(inner, lvl + 1, a, b))
        \o << [ Token("blockquote_close", lvl) EXCEPT !.markup = << ">" >> ] >>

\* what re-entering the rule on a nested table leaves: a table of one row
\* and one cell
NestedTable(lvl, a, b) ==
    << [ Token("yfm_table_open", lvl) EXCEPT !.map = << a, b >> ],
       Token("yfm_tbody_open", lvl + 1),
       Token("yfm_tr_open", lvl + 2),
       Token("yfm_td_open", lvl + 3) >>
    \o Paragraph(<< "x" >>, lvl + 4, a, b)
    \o << Token("yfm_td_close", lvl + 3),
          Token("yfm_tr_close", lvl + 2),
          Token("yfm_tbody_close", lvl + 1),
          Token("yfm_table_close", lvl) >>

BlockTokens(text, lvl, a, b) ==
    IF text[1] = ">" THEN Blockquote(text, lvl, a, b)
    ELSE IF Len(text) >= 2 /\ text[1] = hashChar /\ text[2] = pipeChar
      THEN NestedTable(lvl, a, b)
    ELSE Paragraph(text, lvl, a, b)

RECURSIVE tokenize(_, _, _)
tokenize(l, to, lvl) ==
    IF l >= to \/ ~LineInIndex(l) THEN << >>
    ELSE IF IsEmptyLine(l) THEN tokenize(l + 1, to, lvl)
    ELSE LET e == BlockEnd(l, to)
         IN  BlockTokens(JoinLines(l, e), lvl, l, e) \o tokenize(e, to, lvl)

(***************************************************************************)
(* extractAttributes and extractAndApplyClassFromToken.  AttrsParser is an *)
(* external library: of its syntax the model keeps the class shorthand,    *)
(* a block holding one ".name", and hands any other text on unparsed.      *)
(***************************************************************************)
RECURSIVE skipSpaces(_)
\* state.skipSpaces(pos)
skipSpaces(pos) ==
    IF IsNum(pos) /\ pos < Len(src) /\ At(pos) = spaceChar THEN skipSpaces(pos + 1) ELSE pos

\* the attributes of the table: the text after the scan's last position
extractAttributes(pos) ==
    LET from == IF IsNum(skipSpaces(pos)) THEN skipSpaces(pos) ELSE 0
        attrsString == Trim(SubSeq(src, from + 1, Len(src)))
    IN  IF attrsString = << >> THEN << >> ELSE << << "attr", attrsString >> >>

RECURSIVE BlockOpen(_, _)
\* /\{[^}]*}$/: the 1-based index of the leftmost "{" with no "}" between it
\* and the final character, searching down from k; 0 when there is none
BlockOpen(t, k) ==
    IF k < 1 \/ t[k] = curlyBraceClose THEN 0
    ELSE LET rest == BlockOpen(t, k - 1)
         IN  IF rest # 0 THEN rest ELSE IF t[k] = curlyBraceOpen THEN k ELSE 0

\* the class a trailing block "{.name}" gives, << >> when it gives none
TrailingClass(t) ==
    IF Len(t) < 4 \/ t[Len(t)] # curlyBraceClose THEN << >>
    ELSE LET k == BlockOpen(t, Len(t) - 1)
         IN  IF k = 0 \/ k + 1 >= Len(t) - 1 \/ t[k + 1] # "." THEN << >>
             ELSE SubSeq(t, k + 2, Len(t) - 1)

\* the content left once the class block is taken out
WithoutTrailingClass(t) ==
    TrimRight(SubSeq(t, 1, BlockOpen(t, Len(t) - 1) - 1))

\* tokens after extractAndApplyClassFromToken(tokens[c], tokens[td])
extractAndApplyClassFromToken(tk, c, td) ==
    LET cls == TrailingClass(tk[c].content)
    IN  IF cls = << >> THEN tk
        ELSE [ tk EXCEPT ![td] = attrSet(@, "class", cls),
                         ![c].content = WithoutTrailingClass(tk[c].content) ]

(***************************************************************************)
(* applySpans.  contentMap[i][j] is read at index [i + 1][j + 1]; tokenMap *)
(* holds, for each cell, the index of its td_open in tokens.  A state of   *)
(* the traversal is [tk, threw]: threw records the TypeError of calling a  *)
(* method of tokenMap[row][j] where that is undefined.                     *)
(***************************************************************************)
COLSPAN_SYMBOL == << ">" >>
ROWSPAN_SYMBOL == << "^" >>

\* contentMap[i][j], << "undefined" >> where the row has no such column
ContentAt(contentMap, i, j) ==
    IF j < Len(contentMap[i + 1]) THEN contentMap[i + 1][j + 1] ELSE << "undefined" >>

Mark(tk, k) == [ tk EXCEPT ![k].markForDeletion = TRUE ]

RECURSIVE ColumnsBackwardsThrough(_, _, _, _, _, _)
\* a backward walk that takes a rowspan symbol for a text cell
ColumnsBackwardsThrough(st, contentMap, tokenMap, i, col, colspanFactor) ==
    IF col < 0 THEN st
    ELSE IF ContentAt(contentMap, i, col) = COLSPAN_SYMBOL
      THEN ColumnsBackwardsThrough([ st EXCEPT !.tk = Mark(@, tokenMap[i + 1][col + 1]) ],
                                   contentMap, tokenMap, i, col - 1, colspanFactor + 1)
    ELSE [ st EXCEPT !.tk[tokenMap[i + 1][col + 1]] = attrSet(@, "colspan", ToString(colspanFactor)) ]

RECURSIVE ColumnsBackwards(_, _, _, _, _, _)
\* lines 448-459
ColumnsBackwards(st, contentMap, tokenMap, i, col, colspanFactor) ==
    IF col < 0 THEN st
    ELSE IF ContentAt(contentMap, i, col) = COLSPAN_SYMBOL
      THEN ColumnsBackwards([ st EXCEPT !.tk = Mark(@, tokenMap[i + 1][col + 1]) ],
                            contentMap, tokenMap, i, col - 1, colspanFactor + 1)
    ELSE IF ContentAt(contentMap, i, col) = ROWSPAN_SYMBOL THEN st
    ELSE [ st EXCEPT !.tk[tokenMap[i + 1][col + 1]] = attrSet(@, "colspan", ToString(colspanFactor)) ]

RECURSIVE RowsUpward(_, _, _, _, _, _)
\* lines 470-480
RowsUpward(st, contentMap, tokenMap, row, j, rowSpanFactor) ==
    IF row < 0 THEN st
    ELSE IF ContentAt(contentMap, row, j) = ROWSPAN_SYMBOL
      THEN RowsUpward([ st EXCEPT !.tk = Mark(@, tokenMap[row + 1][j + 1]) ],
                      contentMap, tokenMap, row - 1, j, rowSpanFactor + 1)
    ELSE IF ContentAt(contentMap, row, j) = COLSPAN_SYMBOL THEN st
    ELSE IF j >= Len(tokenMap[row + 1]) THEN [ st EXCEPT !.threw = TRUE ]
    ELSE [ st EXCEPT !.tk[tokenMap[row + 1][j + 1]] = attrSet(@, "rowspan", ToString(rowSpanFactor)) ]

\* the column bound of the inner loop, line 439
SpanColumns(contentMap) == Len(contentMap[1])

\* the body of the inner loop with the colspan factor starting at 1
SpanCellFactorOne(st, contentMap, tokenMap, i, j) ==
    IF ContentAt(contentMap, i, j) = COLSPAN_SYMBOL
      THEN IF j = 0 THEN st
           ELSE ColumnsBackwards([ st EXCEPT !.tk = Mark(@, tokenMap[i + 1][j + 1]) ],
                                 contentMap, tokenMap, i, j - 1, 1)
    ELSE IF ContentAt(contentMap, i, j) = ROWSPAN_SYMBOL
      THEN IF i = 0 THEN st
           ELSE RowsUpward([ st EXCEPT !.tk = Mark(@, tokenMap[i + 1][j + 1]) ],
                           contentMap, tokenMap, i - 1, j, 2)
    ELSE st

\* the body of the inner loop marking the cell before it reads its content
SpanCellEager(st, contentMap, tokenMap, i, j) ==
    IF j < Len(tokenMap[i + 1])
      THEN [ st EXCEPT !.tk = Mark(@, tokenMap[i + 1][j + 1]) ]
      ELSE st

\* lines 440-481: the body of the inner loop for cell (i, j)
SpanCell(st, contentMap, tokenMap, i, j) ==
    IF ContentAt(contentMap, i, j) = COLSPAN_SYMBOL
      THEN IF j = 0 THEN st
           ELSE ColumnsBackwards([ st EXCEPT !.tk = Mark(@, tokenMap[i + 1][j + 1]) ],
                                 contentMap, tokenMap, i, j - 1, 2)
    ELSE IF ContentAt(contentMap, i, j) = ROWSPAN_SYMBOL
      THEN IF i = 0 THEN st
           ELSE RowsUpward([ st EXCEPT !.tk = Mark(@, tokenMap[i + 1][j + 1]) ],
                           contentMap, tokenMap, i - 1, j, 2)
    ELSE st

RECURSIVE SpanLoop(_, _, _, _, _)
\* the two loops of lines 438-439, from cell (i, j) on, until a throw
SpanLoop(st, contentMap, tokenMap, i, j) ==
    IF st.threw \/ i >= Len(contentMap) THEN st
    ELSE IF j >= SpanColumns(contentMap) THEN SpanLoop(st, contentMap, tokenMap, i + 1, 0)
    ELSE SpanLoop(SpanCell(st, contentMap, tokenMap, i, j), contentMap, tokenMap, i, j + 1)

applySpans(tk, contentMap, tokenMap) ==
    SpanLoop([ tk |-> tk, threw |-> FALSE ], contentMap, tokenMap, 0, 0)

(***************************************************************************)
(* clearTokens.  Indices are 0-based as in the code: token k is tk[k + 1]. *)
(***************************************************************************)
RECURSIVE MatchingClose(_, _, _)
\* lines 503-508: the first td_close of this level from j on, NaN when none
MatchingClose(tk, j, lvl) ==
    IF j >= Len(tk) THEN NaN
    ELSE IF tk[j + 1].type = "yfm_td_close" /\ tk[j + 1].level = lvl THEN j
    ELSE MatchingClose(tk, j + 1, lvl)

\* push in place of unshift: the splices stay in ascending order
AddSpliceLast(splices, sp) == Append(splices, sp)

\* line 500: unshift puts the newest splice first
AddSplice(splices, sp) == << sp >> \o splices

RECURSIVE Splices(_, _, _)
\* lines 496-510
Splices(tk, i, splices) ==
    IF i >= Len(tk) THEN splices
    ELSE IF tk[i + 1].markForDeletion
      THEN Splices(tk, i + 1,
                   AddSplice(splices, << i, MatchingClose(tk, i + 1, tk[i + 1].level) >>))
    ELSE Splices(tk, i + 1, splices)

\* tokens.splice(start, count)
Splice(tk, start, count) ==
    SubSeq(tk, 1, Min(start, Len(tk)))
    \o SubSeq(tk, Min(start + count, Len(tk)) + 1, Len(tk))

RECURSIVE ApplySplices(_, _)
\* lines 511-517: `start && end` fails for 0 and for a close never found
ApplySplices(tk, splices) ==
    IF splices = << >> THEN tk
    ELSE LET start == splices[1][1]
             end == splices[1][2]
         IN  ApplySplices(IF start # 0 /\ IsNum(end) /\ end # 0
                            THEN Splice(tk, start, end - start + 1)
                            ELSE tk,
                          Tail(splices))

clearTokens(tableStart, tk) == ApplySplices(tk, Splices(tk, tableStart, << >>))

(***************************************************************************)
(* The rule.  One action per step of the block rule of yfmTable.           *)
(***************************************************************************)
NoBuild ==
    [ endOfTable |-> 0, oldParentLineMax |-> 0, tableStart |-> 0,
      maxRowLength |-> 0, i |-> 0, j |-> 0,
      cellsMap |-> << >>, contentMap |-> << >>,
      oldTshift |-> 0, oldEMark |-> 0, oldBMark |-> 0, oldLineMax |-> 0 ]

NoScan == ScanStart(0, 0)

startPosition == BMark(startLine) + TShift(startLine)
endPosition == EMark(endLine)

\* lines 529-536: the rule can start here
CanStart ==
    /\ ~(endPosition - startPosition < 2)
    /\ isOpenTableOrder(startPosition)

\* state.push(type, tag, nesting) with the fields set on the new token
Pushed(tk, lvl, tok, nesting) ==
    Append(tk, [ tok EXCEPT !.level = PushLevel(lvl, nesting) ])

RECURSIVE MaxCols(_)
\* Math.max(...rows.map(cols => cols.length)); over no row it is -Infinity,
\* which no loop reads (0 here)
MaxCols(rows) ==
    IF rows = << >> THEN 0
    ELSE IF Len(rows) = 1 THEN Len(rows[1][3])
    ELSE Max(Len(rows[1][3]), MaxCols(Tail(rows)))

HostFrame == << src, bMarks, tShift, eMarks, lineMax, line, level, opts,
                startLine, endLine, snap >>

\* the frame of a full match: the host state and the call's mode
Frame == << HostFrame, silent >>

\* a silent probe that answers true wherever it is asked
RuleSilentAlways ==
    /\ pc = "idle"
    /\ silent' = TRUE
    /\ pc' = "done"
    /\ result' = "true"
    /\ UNCHANGED << HostFrame, tokens, scan, build >>

\* lines 538-540: the silent probe
RuleSilent ==
    /\ pc = "idle"
    /\ silent' = TRUE
    /\ pc' = "done"
    /\ result' = IF CanStart THEN "true" ELSE "false"
    /\ UNCHANGED << HostFrame, tokens, scan, build >>

\* lines 526-536: a full match that does not start
RuleNoMatch ==
    /\ pc = "idle"
    /\ ~CanStart
    /\ pc' = "done"
    /\ result' = "false"
    /\ UNCHANGED << Frame, tokens, scan, build >>

\* lines 542, 242-255: a full match enters getTableRowPositions
RuleStart ==
    /\ pc = "idle"
    /\ CanStart
    /\ scan' = ScanStart(startPosition, startLine)
    /\ pc' = "scan"
    /\ UNCHANGED << Frame, tokens, result, build >>

\* lines 269-377: one pass of the loop; the close fence at level 0 breaks
ScanStep ==
    /\ pc = "scan"
    /\ ScanGoesOn(scan, endPosition)
    /\ scan' = ScanPass(scan)
    /\ pc' = IF scan'.broke THEN "scanned" ELSE "scan"
    /\ UNCHANGED << Frame, tokens, result, build >>

\* lines 269-272: the loop ends at the buffer's end
ScanExit ==
    /\ pc = "scan"
    /\ ~ScanGoesOn(scan, endPosition)
    /\ pc' = "scanned"
    /\ UNCHANGED << Frame, tokens, result, scan, build >>

\* the unterminated branch moving the line cursor past the region
UnterminatedMovesLine ==
    /\ pc = "scanned"
    /\ ~Truthy(scan.endOfTable)
    /\ tokens' = Pushed(tokens, level,
                        [ Token("__yfm_lint", 0) EXCEPT
                            !.hidden = TRUE,
                            !.map = << startLine, endLine >>,
                            !.attrs = << << "YFM004", "true" >> >> ], 0)
    /\ line' = endLine
    /\ pc' = "done"
    /\ result' = "false"
    /\ UNCHANGED << src, bMarks, tShift, eMarks, lineMax, level, opts,
                    startLine, endLine, snap, silent, scan, build >>

\* lines 552-558: no close fence was met
Unterminated ==
    /\ pc = "scanned"
    /\ ~Truthy(scan.endOfTable)
    /\ tokens' = Pushed(tokens, level,
                        [ Token("__yfm_lint", 0) EXCEPT
                            !.hidden = TRUE,
                            !.map = << startLine, endLine >>,
                            !.attrs = << << "YFM004", "true" >> >> ], 0)
    /\ pc' = "done"
    /\ result' = "false"
    /\ UNCHANGED << Frame, scan, build >>

\* lines 560-590
TableOpen ==
    /\ pc = "scanned"
    /\ Truthy(scan.endOfTable)
    /\ LET endOfTable == scan.endOfTable[1]
           t1 == Pushed(tokens, level,
                        [ Token("yfm_table_open", 0) EXCEPT
                            !.attrs = extractAttributes(scan.iter.pos),
                            !.map = << startLine, endOfTable >> ], 1)
           t2 == Pushed(t1, level + 1,
                        [ Token("yfm_tbody_open", 0) EXCEPT
                            !.map = << startLine + 1, endOfTable - 1 >> ], 1)
       IN  /\ tokens' = t2
           /\ build' = [ NoBuild EXCEPT
                           !.endOfTable = endOfTable,
                           !.oldParentLineMax = lineMax,
                           !.tableStart = Len(tokens),
                           !.maxRowLength = MaxCols(scan.rows) ]
           /\ lineMax' = endOfTable
    /\ line' = startLine
    /\ level' = level + 2
    /\ pc' = "rows"
    /\ UNCHANGED << src, bMarks, tShift, eMarks, opts, startLine, endLine, silent,
                    snap, result, scan >>

\* lines 592-599
RowOpen ==
    /\ pc = "rows"
    /\ build.i < Len(scan.rows)
    /\ LET row == scan.rows[build.i + 1]
       IN  tokens' = Pushed(tokens, level,
                            [ Token("yfm_tr_open", 0) EXCEPT
                                !.map = << row[1], row[2] >> ], 1)
    /\ level' = level + 1
    /\ build' = [ build EXCEPT !.cellsMap = Append(@, << >>),
                               !.contentMap = Append(@, << >>),
                               !.j = 0 ]
    /\ pc' = "cells"
    /\ UNCHANGED << src, bMarks, tShift, eMarks, lineMax, line, opts,
                    startLine, endLine, silent, snap, result, scan >>

Cols == scan.rows[build.i + 1][3]

\* arr[l] = v; a write past the end of the array leaves holes, which the
\* model does not need: the cell lines are lines of the index
SetAt(arr, l, v) == IF l >= 0 /\ l < Len(arr) THEN [ arr EXCEPT ![l + 1] = v ] ELSE arr

\* lines 601-615: the cell's td_open, and the line index cut to the cell
CellOpen ==
    /\ pc = "cells"
    /\ build.j < Len(Cols)
    /\ LET begin == Cols[build.j + 1][1]
           end == Cols[build.j + 1][2]
       IN  /\ tokens' = Pushed(tokens, level,
                               [ Token("yfm_td_open", 0) EXCEPT
                                   !.map = << begin.line, end.line >> ], 1)
           /\ build' = [ build EXCEPT
                           !.cellsMap[build.i + 1] = Append(@, Len(tokens) + 1),
                           !.oldTshift = TShift(begin.line),
                           !.oldEMark = EMark(end.line),
                           !.oldBMark = BMark(begin.line),
                           !.oldLineMax = lineMax ]
           /\ tShift' = SetAt(tShift, begin.line, 0)
           /\ bMarks' = SetAt(bMarks, begin.line, begin.pos)
           /\ eMarks' = SetAt(eMarks, end.line, end.pos)
           /\ lineMax' = end.line + 1
    /\ level' = level + 1
    /\ pc' = "cell"
    /\ UNCHANGED << src, line, opts, startLine, endLine, silent, snap, result, scan >>

\* lines 617-634: the cell's content, its td_close, and the line index
\* restored
CellClose ==
    /\ pc = "cell"
    /\ LET begin == Cols[build.j + 1][1]
           end == Cols[build.j + 1][2]
           t1 == tokens \o tokenize(begin.line, end.line + 1, level)
           c == Len(t1) - 1
           content == IF Trim(t1[c].content) # << >>
                        THEN Trim(t1[c].content) ELSE Trim(t1[c].markup)
           t2 == Pushed(t1, level,
                        [ Token("yfm_td_close", 0) EXCEPT
                            !.map = << end.line, end.line + 1 >> ], -1)
           td == build.cellsMap[build.i + 1][Len(build.cellsMap[build.i + 1])]
       IN  /\ tokens' = extractAndApplyClassFromToken(t2, c, td)
           /\ build' = [ build EXCEPT
                           !.contentMap[build.i + 1] = Append(@, content),
                           !.j = @ + 1 ]
           /\ tShift' = SetAt(tShift, begin.line, build.oldTshift)
           /\ bMarks' = SetAt(bMarks, begin.line, build.oldBMark)
           /\ eMarks' = SetAt(eMarks, end.line, build.oldEMark)
           /\ line' = IF tokenize(begin.line, end.line + 1, level) = << >>
                        THEN line ELSE end.line + 1
    /\ lineMax' = build.oldLineMax
    /\ level' = level - 1
    /\ pc' = "cells"
    /\ UNCHANGED << src, opts, startLine, endLine, silent, snap, result, scan >>

\* a row closed without padding
EmptyCellsNone(tk, lvl, emptyCellsCount) == tk

RECURSIVE EmptyCells(_, _, _)
\* lines 639-642
EmptyCells(tk, lvl, emptyCellsCount) ==
    IF emptyCellsCount <= 0 THEN tk
    ELSE EmptyCells(Pushed(Pushed(tk, lvl, Token("yfm_td_open", 0), 1),
                           lvl + 1, Token("yfm_td_close", 0), -1),
                    lvl, emptyCellsCount - 1)

\* lines 637-646: the padding and the row's tr_close
RowClose ==
    /\ pc = "cells"
    /\ build.j >= Len(Cols)
    /\ LET rowLength == Len(Cols)
           padded == IF rowLength < build.maxRowLength
                       THEN EmptyCells(tokens, level, build.maxRowLength - rowLength)
                       ELSE tokens
       IN  tokens' = Pushed(padded, level, Token("yfm_tr_close", 0), -1)
    /\ level' = level - 1
    /\ build' = [ build EXCEPT !.i = @ + 1 ]
    /\ pc' = "rows"
    /\ UNCHANGED << src, bMarks, tShift, eMarks, lineMax, line, opts,
                    startLine, endLine, silent, snap, result, scan >>

\* line 648; a TypeError leaves the rule with the tokens as they stand
Spans ==
    /\ pc = "rows"
    /\ build.i >= Len(scan.rows)
    /\ LET st == applySpans(tokens, build.contentMap, build.cellsMap)
       IN  /\ tokens' = st.tk
           /\ pc' = IF st.threw THEN "threw" ELSE "clear"
           /\ result' = IF st.threw THEN "TypeError" ELSE result
    /\ UNCHANGED << Frame, scan, build >>

\* lines 649-659
Compact ==
    /\ pc = "clear"
    /\ LET t1 == clearTokens(build.tableStart, tokens)
           t2 == Pushed(t1, level, Token("yfm_tbody_close", 0), -1)
       IN  tokens' = Pushed(t2, level - 1,
                            [ Token("yfm_table_close", 0) EXCEPT
                                !.map = << build.endOfTable, build.endOfTable + 1 >> ], -1)
    /\ level' = level - 2
    /\ lineMax' = build.oldParentLineMax
    /\ line' = build.endOfTable
    /\ pc' = "done"
    /\ result' = "true"
    /\ UNCHANGED << src, bMarks, tShift, eMarks, opts, startLine, endLine, silent,
                    snap, scan, build >>

(***************************************************************************)
(* Inputs                                                                  *)
(***************************************************************************)
\* how many fragments follow the head of an enumerated input
MaxFrags == 4

\* the highest line the rule is tried at
MaxStartLine == 1

Frags ==
    { << hashChar, pipeChar >>, << pipeChar, hashChar >>, << pipeChar, pipeChar >>,
      << pipeChar >>, << backSlashChar >>, << "a" >>, << newLine >>,
      codeBlockOrder }

\* an open fence; an open fence with a row open on the next line; the same
\* below a line of text
Heads ==
    { << hashChar, pipeChar >>,
      << hashChar, pipeChar, newLine, pipeChar, pipeChar, "a" >>,
      << "a", newLine, hashChar, pipeChar, pipeChar, pipeChar >> }

RECURSIVE Bodies(_)
Bodies(n) ==
    IF n = 0 THEN { << >> }
    ELSE Bodies(n - 1) \cup { b \o f : b \in Bodies(n - 1), f \in Frags }

\* scenario 5 of the specification: a nested table between the rows of the
\* outer one,  #| / || outer || / #| / || inner || / |# / |#
NestedScenario ==
    << "#", "|", "\n", "|", "|", " ", "o", "u", "t", "e", "r", " ", "|", "|", "\n", "#", "|", "\n",
       "|", "|", " ", "i", "n", "n", "e", "r", " ", "|", "|", "\n", "|", "#", "\n", "|", "#" >>

\* a backtick with no closer on its line, the next backtick a line below,
\* #| / || `a | b || / || c` || / |#
CodeScenario ==
    << "#", "|", "\n", "|", "|", " ", apostropheChar, "a", " ", "|", " ", "b", " ", "|", "|", "\n",
       "|", "|", " ", "c", apostropheChar, " ", "|", "|", "\n", "|", "#" >>

\* a backtick in a cell and the next backtick on an indented line below
\* the table,  #| / || `a || / |# / two blanks and a backtick
IndentScenario ==
    << "#", "|", "\n", "|", "|", " ", apostropheChar, "a", " ", "|", "|", "\n", "|", "#", "\n",
       " ", " ", apostropheChar >>

\* a math fence marker and table markers inside a fenced code block,
\* #| / || / ``` / $$ || | #| / ``` / || / |#
FenceMixScenario ==
    << "#", "|", "\n", "|", "|", "\n", apostropheChar, apostropheChar, apostropheChar, "\n",
       "$", "$", " ", "|", "|", " ", "|", " ", "#", "|", "\n",
       apostropheChar, apostropheChar, apostropheChar, "\n", "|", "|", "\n", "|", "#" >>

\* cell markers on a line before the first row,
\* #| / | a | b / || c || / |#
StrayScenario ==
    << "#", "|", "\n", "|", " ", "a", " ", "|", " ", "b", "\n", "|", "|", " ", "c", " ", "|", "|",
       "\n", "|", "#" >>

\* an inline math span with text right after it, the close fence on its
\* line,  #| / || $a$b || |#$
MathScenario ==
    << "#", "|", "\n", "|", "|", " ", "$", "a", "$", "b", " ", "|", "|", " ", "|", "#", "$" >>

\* Inputs written out: the scenarios of the specification and the constructs
\* the scanner tells apart.
ScenarioInputs ==
    {
      \* #| / ||  a | b || / |#
      << "#", "|", "\n", "|", "|", " ", " ", "a", " ", "|", " ", "b", " ", "|", "|", "\n", "|", "#" >>,
      \* #| / ||  a | > || / |#
      << "#", "|", "\n", "|", "|", " ", " ", "a", " ", "|", " ", ">", " ", "|", "|", "\n", "|", "#" >>,
      \* a pipe inside an inline code span
      << "#", "|", "\n", "|", "|", " ", apostropheChar, "|", apostropheChar, " ", "|", " ", "b", " ",
        "|", "|", "\n", "|", "#" >>,
      NestedScenario,
      \* a nested table inside a cell
      << "#", "|", "\n", "|", "|", "\n", "#", "|", "\n", "|", "|", " ", "x", " ", "|", " ", "y", " ",
        "|", "|", "\n", "|", "#", "\n", "|", " ", "b", " ", "|", "|", "\n", "|", "#" >>,
      \* a close fence inside a fenced code block, then a cell
      << "#", "|", "\n", "|", "|", "\n", apostropheChar, apostropheChar, apostropheChar, "\n", "|",
        "#", "\n", apostropheChar, apostropheChar, apostropheChar, "\n", "|", " ", "b", " ", "|", "|",
        "\n", "|", "#" >>,
      \* a template variable, inline math and a math fence
      << "#", "|", "\n", "|", "|", " ", "{", "{", "a", "|", "b", "}", "}", " ", "|", " ", "$", "x",
        "|", "y", "$", " ", "|", " ", "$", "$", "|", "$", "$", " ", "|", "|", "\n", "|", "#" >>,
      \* escaped markers and an escaped close fence
      << "#", "|", "\n", "|", "|", " ", "a", "\\", "|", "b", " ", "\\", "\\", "|", " ", "c", " ",
        "\\", "|", "|", " ", "d", "\\", "|", "#", "\n", "|", "#" >>,
      \* a table that never closes
      << "#", "|", "\n", "|", "|", " ", "a", " ", "|", " ", "b", " ", "|", "|", "\n" >>,
      MathScenario,
      CodeScenario,
      IndentScenario,
      StrayScenario,
      FenceMixScenario,
      \* a row on the line of the open fence, text after the close fence
      << "#", "|", " ", "|", "|", " ", "a", " ", "|", "|", " ", "|", "#", " ", "{", ".", "c", "}" >>
    }

\* the options as the plugin reads them: table_ignoreSplittersInBlockCode
\* is on unless set to false, the others are off unless set
DefaultOpts ==
    [ table_ignoreSplittersInBlockCode |-> TRUE,
      table_ignoreSplittersInBlockMath |-> FALSE,
      table_ignoreSplittersInInlineCode |-> FALSE,
      table_ignoreSplittersInInlineMath |-> FALSE ]

AllOpts ==
    [ table_ignoreSplittersInBlockCode : BOOLEAN,
      table_ignoreSplittersInBlockMath : BOOLEAN,
      table_ignoreSplittersInInlineCode : BOOLEAN,
      table_ignoreSplittersInInlineMath : BOOLEAN ]

Inputs ==
    { << h \o b, DefaultOpts >> : h \in Heads, b \in Bodies(MaxFrags) }
    \cup { << "a" >> \o << hashChar >>, << hashChar >>, << >> } \X { DefaultOpts }
    \cup (ScenarioInputs \X AllOpts)

\* the host state when the rule is called on the whole buffer
HostInit(s, o) ==
    /\ src = s
    /\ opts = o
    /\ bMarks = [ l \in 1..Len(LineIndex(s)) |-> LineIndex(s)[l][1] ]
    /\ tShift = [ l \in 1..Len(LineIndex(s)) |-> LineIndex(s)[l][2] ]
    /\ eMarks = [ l \in 1..Len(LineIndex(s)) |-> LineIndex(s)[l][3] ]
    /\ lineMax = Len(LineIndex(s)) - 1
    /\ endLine = lineMax
    /\ level = 0
    /\ tokens = << >>
    /\ silent = FALSE
    /\ result = "none"
    /\ build = NoBuild

Init ==
    /\ \E in \in Inputs : HostInit(in[1], in[2])
    /\ startLine \in 0..Min(MaxStartLine, Max(lineMax - 1, 0))
    /\ line = startLine
    /\ snap = [ bMarks |-> bMarks, tShift |-> tShift, eMarks |-> eMarks,
                lineMax |-> lineMax, line |-> line ]
    /\ scan = NoScan
    /\ pc = "idle"

Next ==
    \/ RuleSilent
    \/ RuleNoMatch
    \/ RuleStart
    \/ ScanStep
    \/ ScanExit
    \/ Unterminated
    \/ TableOpen
    \/ RowOpen
    \/ CellOpen
    \/ CellClose
    \/ RowClose
    \/ Spans
    \/ Compact

Spec == Init /\ [][Next]_vars

(***************************************************************************)
(* Tables.  A table is a sequence of rows, a row a non-empty sequence of   *)
(* cell texts; Render writes it the way the grammar reads it back.  The    *)
(* specification SpecTable is the full match of such tables.               *)
(***************************************************************************)
\* the highest number of cells of an enumerated table
MaxCells == 4

CellTexts == { << "a" >>, COLSPAN_SYMBOL, ROWSPAN_SYMBOL }

RowsOf(k) == [ 1..k -> CellTexts ]

RECURSIVE Tables(_)
\* the tables of at most n cells
Tables(n) ==
    { << >> } \cup
    UNION { { << row >> \o t : row \in RowsOf(k), t \in Tables(n - k) } : k \in 1..n }

RECURSIVE RenderCells(_)
RenderCells(row) ==
    IF Len(row) = 1 THEN row[1]
    ELSE row[1] \o cellStartOrder \o RenderCells(Tail(row))

RECURSIVE RenderRows(_)
RenderRows(t) ==
    IF t = << >> THEN << >>
    ELSE rowStartOrder \o RenderCells(t[1]) \o rowStartOrder \o << newLine >>
         \o RenderRows(Tail(t))

Render(t) == openTableOrder \o << newLine >> \o RenderRows(t) \o closeTableOrder

\* Tables written out: cell texts the enumeration does not hold.
ScenarioTables ==
    {
      \* sentinels written with blanks around them
      << << << " ", "a", " " >>, << " ", ">", " " >>, << " ", ">", " " >> >>, << << " ", "^", " " >>, << " ", "b", " " >>, << " ", "c", " " >> >> >>,
      \* a nested table in a cell, followed by sentinels
      << << << "\n", "#", "|", "\n", "|", "|", " ", "x", " ", "|", "|", "\n", "|", "#", "\n" >>, << ">" >> >>, << << "^" >>, << "b" >> >> >>,
      \* nested tables in the cells of a ragged table
      << << << "a" >> >>, << << "\n", "#", "|", "\n", "|", "|", " ", "x", " ", "|", "|", "\n", "|", "#", "\n" >>, << ">" >>, << "\n", "#", "|", "\n", "|", "|", " ", "y", " ", "|", "|", "\n", "|", "#", "\n" >> >> >>,
      \* a cell of two blocks, the last one a sentinel; a quoted cell
      << << << "a" >>, << "b", "\n", "\n", ">" >> >>, << << ">", " ", "q" >>, << "^" >> >> >>,
      \* a class block after a sentinel and after text
      << << << "a" >>, << ">", "{", ".", "c", "}" >> >>, << << "b", " ", "{", ".", "c", "}" >>, << ">" >> >> >>,
      \* a rowspan sentinel below a shorter row
      << << << "a" >>, << "b" >> >>, << << "c" >> >>, << << "d" >>, << "^" >> >> >>,
      \* an empty cell of blanks
      << << << "a" >>, << " " >>, << ">" >> >>, << << "^" >>, << ">" >>, << "^" >> >> >>
    }

InitTable ==
    /\ \E t \in Tables(MaxCells) \cup ScenarioTables : HostInit(Render(t), DefaultOpts)
    /\ startLine = 0
    /\ line = startLine
    /\ snap = [ bMarks |-> bMarks, tShift |-> tShift, eMarks |-> eMarks,
                lineMax |-> lineMax, line |-> line ]
    /\ scan = NoScan
    /\ pc = "idle"

\* the full match of a table that starts and closes
NextTable ==
    \/ RuleStart
    \/ ScanStep
    \/ TableOpen
    \/ RowOpen
    \/ CellOpen
    \/ CellClose
    \/ RowClose
    \/ Spans
    \/ Compact

SpecTable == InitTable /\ [][NextTable]_vars


(***************************************************************************)
(* Properties of the scanner and of the rule's entry, stated over Spec.    *)
(***************************************************************************)
\* the line of the index that holds offset p (p below the buffer's end)
LineOf(p) == CHOOSE l \in 0..(Len(bMarks) - 1) : BMark(l) <= p /\ p <= EMark(l)

\* the text holds no opener of a fenced block, of a template variable or of
\* an inline code span: no backtick, no brace, no two dollars in a row
InertFree ==
    \A k \in 1..Len(src) :
        /\ src[k] \notin { apostropheChar, curlyBraceOpen }
        /\ ~(src[k] = dollarChar /\ k < Len(src) /\ src[k + 1] = dollarChar)

RECURSIVE FenceClose(_, _)
\* The text read left to right from offset p at nesting depth d, the way
\* the specification reads it: an inline math span (when they are skipped)
\* is jumped past, an open fence deepens the nesting, a close fence at
\* depth 0 is the matching one, a row marker at depth 0 is taken whole.
\* The offset of the matching close fence, NaN when the text has none.
FenceClose(p, d) ==
    IF p >= Len(src) THEN NaN
    ELSE LET math == IF opts.table_ignoreSplittersInInlineMath
                       THEN skipInlineMath(p, EMark(LineOf(p))) ELSE << >>
         IN  IF math # << >> THEN FenceClose(math[1].end, d)
             ELSE IF isOpenTableOrder(p) THEN FenceClose(p + 2, d + 1)
             ELSE IF isCloseTableOrder(p)
               THEN IF d = 0 THEN p ELSE FenceClose(p + 2, d - 1)
             ELSE IF d = 0 /\ isRowOrder(p) THEN FenceClose(p + 2, d)
             ELSE FenceClose(p + 1, d)

\* the close fence that matches the open fence the rule started at
MatchingFence == FenceClose(startPosition + Len(openTableOrder), 0)

\* C1: when the fences of the input are balanced, the scan ends with
\* endOfTable present and equal to the line of the matching top-level close
\* fence plus 2.
C1_BalancedFences ==
    (pc = "scanned" /\ InertFree /\ IsNum(MatchingFence))
        => scan.endOfTable = << LineOf(MatchingFence) + 2 >>

\* the fields of the outer scan that hold its rows, its open row and its
\* open cell
Trackers(s) == << s.rows, s.currentRow, s.colStart, s.rowStart, s.rowMap >>

\* C2: while the nesting level is above 0, no pass of the scanner (a pass
\* over a row marker or a cell marker included) adds a row, adds a cell to
\* the current row, or changes the open-cell and open-row trackers.
C2_NestedOpaque ==
    [][ (pc = "scan" /\ scan.tableLevel > 0) => Trackers(scan') = Trackers(scan) ]_vars

\* the scanner has just passed the first character of a row marker inside a
\* nested table while a cell of the outer row stays open
C2_Witness ==
    /\ pc = "scan"
    /\ scan.tableLevel > 0
    /\ scan.colStart # << >>
    /\ IsNum(scan.iter.pos) /\ scan.iter.pos >= 1
    /\ isRowOrder(scan.iter.pos - 1)
    /\ ~scan.isInsideCode /\ ~scan.isInsideLiquidVariable

RECURSIVE BackslashRun(_)
\* the number of consecutive backslashes that end right before offset p
BackslashRun(p) ==
    IF p >= 1 /\ At(p - 1) = backSlashChar THEN 1 + BackslashRun(p - 1) ELSE 0

\* at every offset that holds a row marker, or a single pipe, the detector
\* reports it exactly when an even run of backslashes precedes it
DetectorsFollowRun ==
    \A p \in 0..(Len(src) - 1) :
        /\ checkCharsOrder(rowStartOrder, p)
             => (isRowOrder(p) <=> BackslashRun(p) % 2 = 0)
        /\ (At(p) = pipeChar /\ ~checkCharsOrder(rowStartOrder, p))
             => (isCellOrder(p) <=> BackslashRun(p) % 2 = 0)

\* the cursor of the scan stands on a pipe that an odd run of backslashes
\* precedes
OnEscapedPipe ==
    /\ pc = "scan"
    /\ ScanGoesOn(scan, endPosition)
    /\ At(scan.iter.pos) = pipeChar
    /\ BackslashRun(scan.iter.pos) % 2 = 1

\* C3: isRowOrder and isCellOrder report a delimiter exactly when the run
\* of backslashes before it has even length, and the pass of the scanner
\* over a pipe preceded by an odd run records no row or cell boundary,
\* unless that pipe opens a close fence: the close fence is read whatever
\* precedes it.
C3_EscapeAmended ==
    [][ /\ DetectorsFollowRun
        /\ (OnEscapedPipe /\ ~isCloseTableOrder(scan.iter.pos))
             => Trackers(scan') = Trackers(scan) ]_vars

\* C3 as stated: the pass of the scanner over any pipe preceded by an odd
\* run of backslashes records no row or cell boundary.
C3_EscapeAsStated ==
    [][ /\ DetectorsFollowRun
        /\ OnEscapedPipe => Trackers(scan') = Trackers(scan) ]_vars

\* the scanner has passed an escaped pipe inside an open cell and the cell
\* is still open where it was
C3_Witness ==
    /\ pc = "scan"
    /\ scan.tableLevel = 0
    /\ scan.colStart # << >>
    /\ IsNum(scan.iter.pos) /\ scan.iter.pos >= 2
    /\ At(scan.iter.pos - 1) = pipeChar
    /\ BackslashRun(scan.iter.pos - 1) % 2 = 1
    /\ scan.colStart[1].pos < scan.iter.pos - 1
    /\ ~scan.isInsideCode /\ ~scan.isInsideLiquidVariable

TableTypes ==
    { "yfm_table_open", "yfm_table_close", "yfm_tbody_open", "yfm_tbody_close",
      "yfm_tr_open", "yfm_tr_close", "yfm_td_open", "yfm_td_close" }

\* a full match has ended on a table whose close fence the scan never met
EndedUnterminated ==
    /\ pc = "done"
    /\ ~silent
    /\ CanStart
    /\ scan.endOfTable = << >>

\* C4: a full match on a table that never closes returns false, appends
\* one hidden element that carries YFM004 and no element of a table, and
\* leaves the line cursor, lineMax and the line tables as they were.
C4_Unterminated ==
    EndedUnterminated =>
        /\ result = "false"
        /\ Len(tokens) = 1
        /\ tokens[1].type = "__yfm_lint"
        /\ tokens[1].hidden
        /\ HasAttr(tokens[1], "YFM004")
        /\ \A k \in 1..Len(tokens) : tokens[k].type \notin TableTypes
        /\ line = snap.line
        /\ lineMax = snap.lineMax
        /\ bMarks = snap.bMarks /\ tShift = snap.tShift /\ eMarks = snap.eMarks

\* a full match of a table with a row in it has ended unterminated
C4_Witness ==
    /\ EndedUnterminated
    /\ result = "false"
    /\ Len(tokens) = 1
    /\ \E p \in 0..(Len(src) - 1) : isRowOrder(p)

\* the inner block of the nested scenario: from its open fence to the end of
\* its close fence
InnerOpen == CHOOSE p \in 1..Len(src) : isOpenTableOrder(p)
InnerEnd ==
    (CHOOSE p \in 0..Len(src) :
        isCloseTableOrder(p) /\ \A q \in 0..(p - 1) : ~isCloseTableOrder(q)) + 2

\* the scan of the nested scenario has ended
NestedScanned == src = NestedScenario /\ startLine = 0 /\ pc = "scanned"

\* C10: the scan of the nested scenario yields one outer row with one
\* cell; the cell's range is the text " outer " of line 1 and ends before
\* the inner block, which follows the row's closing marker.
C10_NestedAmended ==
    NestedScanned =>
        /\ Len(scan.rows) = 1
        /\ Len(scan.rows[1][3]) = 1
        /\ LET cell == scan.rows[1][3][1]
           IN  /\ SubSeq(src, cell[1].pos + 1, cell[2].pos)
                    = << " ", "o", "u", "t", "e", "r", " " >>
               /\ cell[1].line = 1 /\ cell[2].line = 1
               /\ cell[2].pos <= InnerOpen

\* C10 as stated: the one cell's range contains the whole inner block.
C10_NestedAsStated ==
    NestedScanned =>
        /\ Len(scan.rows) = 1
        /\ Len(scan.rows[1][3]) = 1
        /\ LET cell == scan.rows[1][3][1]
           IN  cell[1].pos <= InnerOpen /\ InnerEnd <= cell[2].pos

\* the scan of the nested scenario has ended on the outer close fence
C10_Witness ==
    /\ NestedScanned
    /\ scan.broke
    /\ scan.tableLevel = 0
    /\ scan.endOfTable = << 7 >>

(***************************************************************************)
(* Properties of the tree builder, the span resolver and the compactor,    *)
(* stated over SpecTable.  Rows and columns count from 1 here.             *)
(***************************************************************************)
\* the n-th smallest element of a set of numbers
Nth(S, n) == CHOOSE k \in S : Cardinality({ m \in S : m < k }) = n - 1

\* the level of the table's own rows and cells
IsOuterTr(t) == t.type = "yfm_tr_open" /\ t.level = tokens[1].level + 2
IsOuterTd(t) == t.type = "yfm_td_open" /\ t.level = tokens[1].level + 3

\* the index of the r-th row's tr_open, and of its tr_close
TrOpenOf(r) == Nth({ k \in 1..Len(tokens) : IsOuterTr(tokens[k]) }, r)
TrCloseOf(r) ==
    CHOOSE k \in (TrOpenOf(r) + 1)..Len(tokens) :
        /\ tokens[k].type = "yfm_tr_close" /\ tokens[k].level = tokens[1].level + 2
        /\ \A m \in (TrOpenOf(r) + 1)..(k - 1) :
               ~(tokens[m].type = "yfm_tr_close" /\ tokens[m].level = tokens[1].level + 2)

\* the indices of the td_open elements of the r-th row
TdOpensOf(r) ==
    { k \in TrOpenOf(r)..TrCloseOf(r) : IsOuterTd(tokens[k]) }

\* the highest number of cells the scanner found in a row
WidestRow ==
    CHOOSE n \in { Len(scan.rows[r][3]) : r \in 1..Len(scan.rows) } :
        \A r \in 1..Len(scan.rows) : Len(scan.rows[r][3]) <= n

\* the tree of build.i whole rows stands, compaction has not run
RowsBuilt == pc \in { "rows", "cells", "cell", "clear" } /\ build.i >= 1

\* the r-th row holds exactly n td pairs, and those past its scanned cells
\* are a td_open with its td_close right behind, both without attributes
\* and content
PaddedTo(r, n) ==
    /\ Cardinality(TdOpensOf(r)) = n
    /\ Cardinality({ k \in TrOpenOf(r)..TrCloseOf(r) :
                       tokens[k].type = "yfm_td_close"
                       /\ tokens[k].level = tokens[1].level + 3 }) = n
    /\ \A c \in (Len(scan.rows[r][3]) + 1)..n :
           LET k == Nth(TdOpensOf(r), c)
           IN  /\ tokens[k + 1].type = "yfm_td_close"
               /\ tokens[k + 1].level = tokens[k].level
               /\ tokens[k].attrs = << >> /\ tokens[k + 1].attrs = << >>
               /\ tokens[k].content = << >> /\ tokens[k + 1].content = << >>

\* C8: before compaction every row of the element stream holds exactly
\* maxRowLength td pairs, maxRowLength being the highest scanned cell count
\* of a row, and the pairs added as padding are empty and carry no
\* attribute.
C8_RowPadding ==
    RowsBuilt => \A r \in 1..build.i : PaddedTo(r, WidestRow)

\* the span resolver has run over a table with a row shorter than another
C8_Witness ==
    /\ pc = "clear"
    /\ build.i = Len(scan.rows)
    /\ \E r \in 1..Len(scan.rows) : Len(scan.rows[r][3]) + 2 <= WidestRow

\* the content map is rectangular and holds no rowspan sentinel
Rectangular ==
    \A r \in 1..Len(build.contentMap) :
        Len(build.contentMap[r]) = Len(build.contentMap[1])
NoRowspan ==
    \A r \in 1..Len(build.contentMap) : \A c \in 1..Len(build.contentMap[r]) :
        build.contentMap[r][c] # ROWSPAN_SYMBOL

\* the cell (r, c) is a real cell with exactly k colspan sentinels behind it
Spanning(r, c, k) ==
    LET row == build.contentMap[r]
    IN  /\ row[c] # COLSPAN_SYMBOL
        /\ c + k <= Len(row)
        /\ \A m \in (c + 1)..(c + k) : row[m] = COLSPAN_SYMBOL
        /\ (c + k < Len(row) => row[c + k + 1] # COLSPAN_SYMBOL)

\* the indices of a cell from its td_open at x to its td_close
CellSpanOf(tk, x) ==
    LET y == CHOOSE y \in (x + 1)..Len(tk) :
                 /\ tk[y].type = "yfm_td_close" /\ tk[y].level = tk[x].level
                 /\ \A m \in (x + 1)..(y - 1) :
                        ~(tk[m].type = "yfm_td_close" /\ tk[m].level = tk[x].level)
    IN  x..y

\* the indices of the cells marked for deletion
Removed(tk) ==
    UNION { CellSpanOf(tk, x) : x \in { k \in 1..Len(tk) : tk[k].markForDeletion } }

\* the stream without the marked cells, in one filtering pass
Surviving(tk) ==
    LET keep == (1..Len(tk)) \ Removed(tk)
    IN  [ n \in 1..Cardinality(keep) |-> tk[Nth(keep, n)] ]

\* C5: in a rectangular table without rowspan sentinels, a real cell with
\* k >= 1 colspan sentinels right behind it carries colspan = k + 1 (as the
\* decimal string the code writes), and
\* the compacted stream is the stream without the sentinels' td_open,
\* content and td_close, the real cell kept as it is.
C5_Colspan ==
    [][ (pc = "clear" /\ Rectangular /\ NoRowspan) =>
          /\ \A r \in 1..Len(build.contentMap) :
             \A c \in 1..Len(build.contentMap[r]) :
             \A k \in 1..(Len(build.contentMap[r]) - c) :
                 Spanning(r, c, k) =>
                     LET cell == build.cellsMap[r][c]
                     IN  /\ HasAttr(tokens[cell], "colspan")
                         /\ AttrOf(tokens[cell], "colspan") = ToString(k + 1)
                         /\ cell \notin Removed(tokens)
                         /\ \A m \in (c + 1)..(c + k) :
                                CellSpanOf(tokens, build.cellsMap[r][m])
                                    \subseteq Removed(tokens)
          /\ SubSeq(tokens', 1, Len(tokens') - 2) = Surviving(tokens) ]_vars

\* a rectangular table without rowspan sentinels has been compacted, one of
\* its cells spans three columns, and no sentinel of that row is left
C5_Witness ==
    /\ pc = "done" /\ result = "true"
    /\ Rectangular /\ NoRowspan
    /\ \E r \in 1..Len(build.contentMap) : \E c \in 1..Len(build.contentMap[r]) :
           /\ Spanning(r, c, 2)
           /\ Len(build.contentMap[r]) = 3
           /\ Cardinality(TdOpensOf(r)) = 1
           /\ AttrOf(tokens[Nth(TdOpensOf(r), 1)], "colspan") = "3"

\* C6: once the span resolver has run, every colspan sentinel outside the
\* first column and every rowspan sentinel outside the first row is marked
\* for deletion, whatever the shape of the table.
C6_AllSentinelsMarked ==
    pc = "clear" =>
        \A r \in 1..Len(build.contentMap) : \A c \in 1..Len(build.contentMap[r]) :
            /\ (build.contentMap[r][c] = COLSPAN_SYMBOL /\ c # 1)
                 => tokens[build.cellsMap[r][c]].markForDeletion
            /\ (build.contentMap[r][c] = ROWSPAN_SYMBOL /\ r # 1)
                 => tokens[build.cellsMap[r][c]].markForDeletion

\* C7: the full match of a table that closes ends with the span resolver
\* run to its end and a table returned, ragged rows or not.
C7_RaggedSpans ==
    (pc \in { "threw", "done" } /\ ~silent /\ CanStart /\ scan.endOfTable # << >>)
        => (pc = "done" /\ result = "true")

\* the td elements of one level, in the order of the stream
TdsAt(lvl) ==
    SelectSeq(tokens, LAMBDA t : t.type \in { "yfm_td_open", "yfm_td_close" }
                                 /\ t.level = lvl)

\* opens and closes take turns, an open first and a close last
Paired(tds) ==
    /\ Len(tds) % 2 = 0
    /\ \A k \in 1..Len(tds) :
           tds[k].type = (IF k % 2 = 1 THEN "yfm_td_open" ELSE "yfm_td_close")

\* C9: after compaction every td_open is followed by its one td_close of
\* the same level before the next td_open of that level, and no td_close
\* stands without its td_open, nested tables included.
C9_CompactionSafe ==
    (pc = "done" /\ result = "true") =>
        \A lvl \in { tokens[k].level : k \in 1..Len(tokens) } : Paired(TdsAt(lvl))

\* a table with a nested table in a cell has been compacted and two of its
\* rows have lost a cell
C9_Witness ==
    /\ pc = "done" /\ result = "true"
    /\ \E k \in 1..Len(tokens) :
           tokens[k].type = "yfm_td_open" /\ tokens[k].level > tokens[1].level + 3
    /\ \E r1, r2 \in 1..Len(build.contentMap) :
           /\ r1 # r2
           /\ Cardinality(TdOpensOf(r1)) < WidestRow
           /\ Cardinality(TdOpensOf(r2)) < WidestRow

(***************************************************************************)
(* Properties of the host state, the silent probe and the span resolver.   *)
(***************************************************************************)
\* the line tables stand as they stood at the call
TablesRestored ==
    bMarks = snap.bMarks /\ tShift = snap.tShift /\ eMarks = snap.eMarks

\* the line tables are cut to the cell whose content is being tokenized
CutToCell ==
    LET begin == Cols[build.j + 1][1]
        end == Cols[build.j + 1][2]
    IN  /\ BMark(begin.line) = begin.pos
        /\ TShift(begin.line) = 0
        /\ EMark(end.line) = end.pos
        /\ lineMax = end.line + 1

\* C11: the line tables and lineMax are cut to a cell only while its content
\* is tokenized and stand restored between cells; once a full match is over
\* every entry of the line tables and lineMax equal their values at the
\* call.
C11_HostFrame ==
    /\ pc = "cell" => CutToCell
    /\ pc \in { "rows", "cells", "clear", "threw", "done" } => TablesRestored
    /\ (pc \in { "threw", "done" } /\ ~silent) => lineMax = snap.lineMax

\* a silent probe is over
Probed == pc = "done" /\ silent

\* the text holds no close fence at all: no scan of it can find one
NoCloseFence == \A p \in 0..Len(src) : ~isCloseTableOrder(p)

\* nothing was emitted, nothing scanned, the host state is as at the call
ProbeLeftNothing ==
    /\ tokens = << >>
    /\ scan = NoScan
    /\ TablesRestored
    /\ line = snap.line /\ lineMax = snap.lineMax

\* C12 as amended: the silent probe answers by the prefix check alone: true
\* exactly when the region holds two characters or more and opens with the
\* open fence, whether the table closes or not; it emits no element and
\* scans nothing.  A full match returns true only where the probe does.
C12_ProbeAmended ==
    /\ Probed => ((result = "true" <=> CanStart) /\ ProbeLeftNothing)
    /\ (pc = "done" /\ ~silent /\ result = "true") => CanStart

\* C12 as stated, in the case it names: where the close fence is never
\* found, the silent probe returns false and emits no element.
C12_ProbeAsStated ==
    (Probed /\ NoCloseFence) => (result = "false" /\ tokens = << >>)

\* a silent probe of a table with a row and no close fence has returned true
C12_Witness ==
    /\ Probed
    /\ result = "true"
    /\ NoCloseFence
    /\ \E p \in 0..(Len(src) - 1) : isRowOrder(p)

\* C13: once the span resolver has run, no cell of the first column whose
\* content is the colspan symbol and no cell of the first row whose content
\* is the rowspan symbol is marked for deletion.
C13_FirstIgnored ==
    pc \in { "clear", "threw" } =>
        \A r \in 1..Len(build.contentMap) : \A c \in 1..Len(build.contentMap[r]) :
            /\ (c = 1 /\ build.contentMap[r][c] = COLSPAN_SYMBOL)
                 => ~tokens[build.cellsMap[r][c]].markForDeletion
            /\ (r = 1 /\ build.contentMap[r][c] = ROWSPAN_SYMBOL)
                 => ~tokens[build.cellsMap[r][c]].markForDeletion

\* the text of the scanned cell (r, c): the half-open range of its span
CellText(r, c) ==
    LET cell == scan.rows[r][3][c]
    IN  SubSeq(src, cell[1].pos + 1, cell[2].pos)

\* C14: a cell enters the content map as a colspan or rowspan sentinel only
\* when its entire trimmed text is the symbol; a cell of several blocks
\* whose last block alone is the symbol is no sentinel.
C14_SentinelWholeCell ==
    pc \in { "cells", "rows", "clear", "threw", "done" } =>
        \A r \in 1..Len(build.contentMap) : \A c \in 1..Len(build.contentMap[r]) :
            build.contentMap[r][c] \in { COLSPAN_SYMBOL, ROWSPAN_SYMBOL }
                => Trim(CellText(r, c)) = build.contentMap[r][c]

(***************************************************************************)
(* Properties of the span skippers and of the cursor, stated over Spec.    *)
(***************************************************************************)
\* the cursor of the pass at hand when the pass comes to the inline skips
SkipCursor == AfterLiquid(AfterFences(scan)).iter

\* a pass of the scanner is about to try the inline skips: the loop goes
\* on and no fenced block or template variable holds the cursor
AtSkips ==
    /\ pc = "scan"
    /\ ScanGoesOn(scan, endPosition)
    /\ ~AfterFences(scan).isInsideCode /\ ~AfterFences(scan).isInsideMath
    /\ ~AfterLiquid(AfterFences(scan)).isInsideLiquidVariable

\* what the scanner's call of skipInlineCode returns
CodeCall == skipInlineCode(SkipCursor.pos, SkipCursor.lineEnds)

\* C15: the scanner's call of skipInlineCode returns a match only when the
\* closing run of backticks ends at or before the end of the cursor's line;
\* a closer that lies on a later line gives no match.
C15_CodeWithinLine ==
    (AtSkips /\ opts.table_ignoreSplittersInInlineCode /\ CodeCall # << >>)
        => CodeCall[1].end <= SkipCursor.lineEnds

\* what the scanner's call of skipInlineMath returns
MathCall == skipInlineMath(SkipCursor.pos, SkipCursor.lineEnds)

\* the pass at hand takes the inline math skip
TakesMathSkip ==
    /\ AtSkips
    /\ ~(opts.table_ignoreSplittersInInlineCode /\ CodeCall # << >>)
    /\ opts.table_ignoreSplittersInInlineMath
    /\ MathCall # << >>

\* C16: a pass that takes the inline math skip leaves the cursor at the
\* offset right after the closing dollar of the span.
C16_MathSkipLandsPast ==
    [][ TakesMathSkip => scan'.iter.pos = MathCall[1].end ]_vars

\* the cursor is a number, its line is a line of the index (the entry that
\* closes the index included) and holds the cursor, and lineEnds is that
\* line's end
CursorInLine(it) ==
    /\ IsNum(it.pos)
    /\ it.line <= lineMax
    /\ BMark(it.line) <= it.pos /\ it.pos <= EMark(it.line)
    /\ it.lineEnds = EMark(it.line)

\* C18: through every pass of the scanner the cursor's index never
\* decreases, its line is the line that holds the index, or the entry past
\* the last line once the buffer is exhausted, and lineEnds is the end of
\* that line.
C18_CursorInvariant ==
    [][ pc = "scan" =>
          /\ CursorInLine(scan.iter)
          /\ CursorInLine(scan'.iter)
          /\ scan'.iter.pos >= scan.iter.pos ]_vars

(***************************************************************************)
(* The scan alone.  The loop of getTableRowPositions is sequential code:   *)
(* a pass that can run does run, and the loop's test is taken once it      *)
(* fails, which is what the two fairness conditions say.                   *)
(***************************************************************************)
ScanInputs ==
    { << h \o b, DefaultOpts >> : h \in Heads, b \in Bodies(MaxFrags - 2) }
    \cup ({ NestedScenario, MathScenario, CodeScenario, IndentScenario } \X AllOpts)

InitScan ==
    /\ \E in \in ScanInputs : HostInit(in[1], in[2])
    /\ startLine \in 0..Min(MaxStartLine, Max(lineMax - 1, 0))
    /\ line = startLine
    /\ snap = [ bMarks |-> bMarks, tShift |-> tShift, eMarks |-> eMarks,
                lineMax |-> lineMax, line |-> line ]
    /\ scan = NoScan
    /\ pc = "idle"

NextScan ==
    \/ RuleStart
    \/ ScanStep
    \/ ScanExit

SpecScan ==
    InitScan /\ [][NextScan]_vars /\ WF_vars(ScanStep) /\ WF_vars(ScanExit)

\* the number of characters the cursor has put behind it; a cursor driven
\* off the line index (NaN) has put the whole buffer behind it
Consumed(it) == IF IsNum(it.pos) THEN it.pos ELSE Len(src) + 1

\* a pass that does not end the scan moves the cursor forward
ScanAdvances ==
    [][ (pc = "scan" /\ pc' = "scan") =>
          Consumed(scan'.iter) > Consumed(scan.iter) ]_vars

\* C19: every pass of the scan loop either ends the scan or moves the cursor
\* forward by at least one character, under every option combination, and
\* every scan that starts comes to its end (the close fence met or the
\* buffer exhausted).
C19_ScanTerminates ==
    /\ [][ (pc = "scan" /\ pc' = "scan") =>
             Consumed(scan'.iter) > Consumed(scan.iter) ]_vars
    /\ [](pc = "scan" => Consumed(scan.iter) <= Len(src) + 1)
    /\ (pc = "scan") ~> (pc = "scanned")

\* a scan of five passes and more that ended at its close fence
C19_Witness ==
    /\ pc = "scanned"
    /\ scan.broke
    /\ Truthy(scan.endOfTable)
    /\ Consumed(scan.iter) >= 5

\* the pass in hand closes the open row: addRow alone clears rowStart
RowClosing == pc = "scan" /\ scan.rowStart # << >> /\ scan'.rowStart = << >>

\* the cells of the open row as addRow collects them
OpenRowCells ==
    IF scan.colStart # << >>
      THEN Append(scan.currentRow, << scan.colStart[1], stats(AfterLiquid(AfterFences(scan)).iter) >>)
      ELSE scan.currentRow

\* C20: a pass that closes a row of at least one cell at nesting level 0
\* appends a Row with those cells to rows, whatever line the row opened
\* on, line 0 included.
C20_RowRecorded ==
    [][ (RowClosing /\ Len(OpenRowCells) > 0) =>
          /\ Len(scan'.rows) = Len(scan.rows) + 1
          /\ scan'.rows[Len(scan'.rows)][1] = scan.rowStart[1]
          /\ scan'.rows[Len(scan'.rows)][3] = OpenRowCells ]_vars

\* position a is not after position b
PosLE(a, b) ==
    /\ IsNum(a.pos) /\ IsNum(b.pos)
    /\ a.pos <= b.pos
    /\ a.line <= b.line

\* position a is before position b
PosLT(a, b) == PosLE(a, b) /\ a.pos < b.pos

\* a recorded row is well formed
RowWellFormed(row) ==
    /\ Len(row[3]) >= 1
    /\ row[1] <= row[2]
    /\ \A k \in 1..Len(row[3]) : PosLE(row[3][k][1], row[3][k][2])
    /\ \A k \in 1..(Len(row[3]) - 1) :
         /\ PosLT(row[3][k][2], row[3][k + 1][1])
         /\ PosLT(row[3][k][1], row[3][k + 1][1])

\* C21: in every state of the scan and in its result, every row of rows has
\* at least one cell and starts no later than it ends, every cell starts
\* no later than it ends, and the cells of a row follow one another in
\* strictly increasing order without overlap.
C21_RowInvariant ==
    \A r \in 1..Len(scan.rows) : RowWellFormed(scan.rows[r])

\* a returned row of two cells and more that spans two lines, its first
\* cell holding text
C21_Witness ==
    /\ pc = "scanned"
    /\ \E r \in 1..Len(scan.rows) :
         /\ Len(scan.rows[r][3]) >= 2
         /\ scan.rows[r][1] < scan.rows[r][2]
         /\ scan.rows[r][3][1][1].pos < scan.rows[r][3][1][2].pos

\* the cells of a recorded row lie inside the row: the first cell starts
\* right after a row marker and every cell is on the row's lines
CellsInsideRow(row) ==
    /\ isRowOrder(row[3][1][1].pos - Len(rowStartOrder))
    /\ \A k \in 1..Len(row[3]) :
         /\ row[1] <= row[3][k][1].line
         /\ row[3][k][2].line <= row[2]

\* C22: every cell of a recorded row lies between the row's opening `||`
\* and its closing marker; text between cell markers met while no row is
\* open is never a cell of a recorded row.
C22_CellsBelongToRow ==
    \A r \in 1..Len(scan.rows) : CellsInsideRow(scan.rows[r])

\* C23: in every state of the scan, under every option combination, the
\* scanner is never inside a fenced code block and a fenced math block at
\* once, and the nesting level is never negative.
C23_ModeInvariant ==
    /\ ~(scan.isInsideCode /\ scan.isInsideMath)
    /\ scan.tableLevel >= 0

\* inside a fenced code block, both fence options on, the cursor on a math
\* fence marker
C23_Witness ==
    /\ pc = "scan"
    /\ scan.isInsideCode
    /\ opts.table_ignoreSplittersInBlockCode /\ opts.table_ignoreSplittersInBlockMath
    /\ isMathBlockOrder(scan.iter.pos)

\* the pass in hand is taken inside a fenced block: the flags as the loop
\* reads them at line 288, after the two toggles
InsideFence ==
    /\ pc = "scan"
    /\ ScanGoesOn(scan, endPosition)
    /\ AfterFences(scan).isInsideCode \/ AfterFences(scan).isInsideMath

\* C24: a pass taken inside a fenced code or math block leaves rows, the
\* current row, the open-cell and open-row trackers, the nesting level, the
\* row toggle map, the template-variable flag and endOfTable unchanged and
\* does not end the scan, whatever marker the cursor is on.
C24_FenceInert ==
    [][ InsideFence =>
          /\ scan'.rows = scan.rows
          /\ scan'.currentRow = scan.currentRow
          /\ scan'.colStart = scan.colStart
          /\ scan'.rowStart = scan.rowStart
          /\ scan'.tableLevel = scan.tableLevel
          /\ scan'.rowMap = scan.rowMap
          /\ scan'.isInsideLiquidVariable = scan.isInsideLiquidVariable
          /\ scan'.endOfTable = scan.endOfTable
          /\ ~scan'.broke ]_vars

\* the cursor has passed a close fence, a row marker, a cell marker, an
\* open fence or a template-variable opening inside a fenced code block
C24_Witness ==
    /\ pc = "scan"
    /\ scan.isInsideCode
    /\ scan.endOfTable = << >>
    /\ \/ isCloseTableOrder(scan.iter.pos - 1)
       \/ isRowOrder(scan.iter.pos - 1)
       \/ isCellOrder(scan.iter.pos - 1)
       \/ isOpenTableOrder(scan.iter.pos - 1)

\* the rule has returned true from a full match
FullMatch == pc = "done" /\ ~silent /\ result = "true"

\* C26: after a full match the host's line cursor is endOfTable and does not
\* exceed the endLine the rule was called with, and the line range the
\* table's opening element reports does not extend past endLine either,
\* also when the close fence is on the last line of the region.
C26_ConsumedBound ==
    FullMatch =>
      /\ line = build.endOfTable
      /\ line <= endLine
      /\ tokens[build.tableStart + 1].map[2] <= endLine

(***************************************************************************)
(* More properties of the span resolver, stated over SpecTable.            *)
(***************************************************************************)
\* every row is built and the span resolver is the next step
SpansDue == pc = "rows" /\ build.i >= Len(scan.rows)

\* no cell of the content map is a sentinel
Resolved ==
    \A r \in 1..Len(build.contentMap) : \A c \in 1..Len(build.contentMap[r]) :
        build.contentMap[r][c] \notin { COLSPAN_SYMBOL, ROWSPAN_SYMBOL }

\* C17: on a content map without sentinels the span resolver leaves every
\* element as it is, no mark and no attribute set, and so does a second run
\* of it over its own result.
C17_ResolvedNoOp ==
    [][ (SpansDue /\ Resolved) =>
          /\ tokens' = tokens
          /\ pc' = "clear"
          /\ applySpans(tokens', build.contentMap, build.cellsMap)
               = [ tk |-> tokens, threw |-> FALSE ] ]_vars

\* the span resolver has run over a table of two rows or more, ragged and
\* without sentinels
C17_Witness ==
    /\ pc = "clear"
    /\ Resolved
    /\ Len(build.contentMap) >= 2
    /\ \E r \in 1..Len(build.contentMap) :
           Len(build.contentMap[r]) # Len(build.contentMap[1])
    /\ \A k \in 1..Len(tokens) : ~tokens[k].markForDeletion

RECURSIVE LeftStop(_, _, _)
\* the column the backward walk from column col of row i stops at, -1 when
\* it runs off the row
LeftStop(contentMap, i, col) ==
    IF col < 0 THEN -1
    ELSE IF ContentAt(contentMap, i, col) = COLSPAN_SYMBOL
      THEN LeftStop(contentMap, i, col - 1)
      ELSE col

RECURSIVE UpStop(_, _, _)
\* the row the upward walk from row `row` of column j stops at
UpStop(contentMap, row, j) ==
    IF row < 0 THEN -1
    ELSE IF ContentAt(contentMap, row, j) = ROWSPAN_SYMBOL
      THEN UpStop(contentMap, row - 1, j)
      ELSE row

\* cell (i, j) is a colspan symbol the loops visit whose backward walk
\* meets a rowspan symbol before any text cell
LeftMeetsRowspan(i, j) ==
    /\ j > 0 /\ j < SpanColumns(build.contentMap)
    /\ ContentAt(build.contentMap, i, j) = COLSPAN_SYMBOL
    /\ LeftStop(build.contentMap, i, j - 1) >= 0
    /\ ContentAt(build.contentMap, i, LeftStop(build.contentMap, i, j - 1)) = ROWSPAN_SYMBOL

\* cell (i, j) is a rowspan symbol the loops visit whose upward walk meets
\* a colspan symbol before any text cell
UpMeetsColspan(i, j) ==
    /\ i > 0 /\ j < SpanColumns(build.contentMap)
    /\ ContentAt(build.contentMap, i, j) = ROWSPAN_SYMBOL
    /\ UpStop(build.contentMap, i - 1, j) >= 0
    /\ ContentAt(build.contentMap, UpStop(build.contentMap, i - 1, j), j) = COLSPAN_SYMBOL

\* what the inner loop's body does at cell (i, j) of the table as built
WalkFrom(i, j) ==
    SpanCell([ tk |-> tokens, threw |-> FALSE ], build.contentMap, build.cellsMap, i, j)

\* the walk sets no attribute and leaves the cell it stopped at unmarked
StopsClean(i, j, stopRow, stopCol) ==
    /\ ~WalkFrom(i, j).threw
    /\ \A k \in 1..Len(tokens) : WalkFrom(i, j).tk[k].attrs = tokens[k].attrs
    /\ WalkFrom(i, j).tk[build.cellsMap[stopRow + 1][stopCol + 1]].markForDeletion
         = tokens[build.cellsMap[stopRow + 1][stopCol + 1]].markForDeletion

\* C25: a backward walk from a colspan symbol that meets a rowspan symbol
\* before any text cell stops there, sets no colspan attribute on any cell
\* and does not mark the rowspan cell; an upward walk from a rowspan symbol
\* that meets a colspan symbol stops there and sets no rowspan attribute.
C25_CrossTypeStop ==
    SpansDue =>
      \A i \in 0..(Len(build.contentMap) - 1) :
        \A j \in 0..(Len(build.contentMap[i + 1]) - 1) :
          /\ LeftMeetsRowspan(i, j) =>
               StopsClean(i, j, i, LeftStop(build.contentMap, i, j - 1))
          /\ UpMeetsColspan(i, j) =>
               StopsClean(i, j, UpStop(build.contentMap, i - 1, j), j)

\* the resolver has run over a table holding both configurations and no
\* cell of it bears a span attribute
C25_Witness ==
    /\ pc = "clear"
    /\ \E i \in 0..(Len(build.contentMap) - 1) :
         \E j \in 0..(Len(build.contentMap[i + 1]) - 1) : LeftMeetsRowspan(i, j)
    /\ \E i \in 0..(Len(build.contentMap) - 1) :
         \E j \in 0..(Len(build.contentMap[i + 1]) - 1) : UpMeetsColspan(i, j)
    /\ \A k \in 1..Len(tokens) :
         ~HasAttr(tokens[k], "colspan") /\ ~HasAttr(tokens[k], "rowspan")

====
